---------------------------- MODULE Spec2Model ----------------------------
(***************************************************************************)
(* Model of plum.py: the recursive directory scanner                       *)
(* (list_files_and_folders_recursive with get_size) and the hierarchy      *)
(* transformer (transform_for_d3_sunburst), run in sequence by main.       *)
(*                                                                         *)
(* The filesystem is the input.  It is a finite tree of nodes; node 0 is   *)
(* the scan root.  A node is a regular file (with a byte size, and a flag  *)
(* telling that stat() of it fails with an I/O error), a directory (with a *)
(* flag telling that listing it fails), or a symbolic link (to a node, or  *)
(* dangling).  Directory iteration order is node-number order.             *)
(*                                                                         *)
(* Spec runs the scan and the transformation as main does, each as one     *)
(* step; LiveSpec follows the scan call by call and entry by entry.        *)
(***************************************************************************)
EXTENDS Integers, Sequences, FiniteSets, TLC

\* ---------------------------------------------------------------- bounds
\* Number of filesystem nodes below the scan root.
MaxNodes == 3
\* Number of filesystem nodes below the scan root when the scan is followed
\* step by step.
LiveNodes == 2
\* Largest file size in bytes.
MaxSize == 2
\* Number of symbolic links the kernel follows while resolving one path
\* before it fails the system call with ELOOP (an OSError).
SymlinkLimit == 2

\* Python's None, the absent size.
None == -1
\* The target of a dangling link, the parent of the root.
NoNode == -1
\* The scan root.
Root == 0

VARIABLES fs, folders_only, file_structure, d3_data, pc, stack

vars == <<fs, folders_only, file_structure, d3_data, pc, stack>>

\* ------------------------------------------------------------ filesystem
Sizes == 1..MaxSize

\* The attributes a new node numbered n can have: its parent is an existing
\* directory; a file has a size or a failing stat; a directory is listable
\* or not; a link points at a node number (a node that exists, the link
\* itself, or one that does not exist yet), at the root, or nowhere.
NodeAttrs(f, n) ==
  LET Dirs == {p \in DOMAIN f : f[p].kind = "dir"} IN
  {[kind |-> "file", parent |-> p, size |-> s, fails |-> FALSE, target |-> NoNode] :
      p \in Dirs, s \in Sizes}
  \cup {[kind |-> "file", parent |-> p, size |-> 0, fails |-> TRUE, target |-> NoNode] :
      p \in Dirs}
  \cup {[kind |-> "dir", parent |-> p, size |-> 0, fails |-> b, target |-> NoNode] :
      p \in Dirs, b \in BOOLEAN}
  \cup {[kind |-> "link", parent |-> p, size |-> 0, fails |-> FALSE, target |-> t] :
      p \in Dirs, t \in (0..MaxNodes) \cup {NoNode}}

\* The scan root, a directory that is listable or not.
RootAttrs ==
  {[kind |-> "dir", parent |-> NoNode, size |-> 0, fails |-> b, target |-> NoNode] :
      b \in BOOLEAN}

NodesOf(f) == DOMAIN f

\* -------------------------------------------------------------- syscalls
RECURSIVE ChildrenFrom(_, _, _)
ChildrenFrom(f, d, n) ==
  IF n \notin DOMAIN f THEN <<>>
  ELSE IF f[n].parent = d THEN <<n>> \o ChildrenFrom(f, d, n + 1)
  ELSE ChildrenFrom(f, d, n + 1)

\* os.scandir(d): the entries of directory d in iteration order, or OSError.
ScanDir(f, d) ==
  IF f[d].fails THEN [err |-> "EACCES", entries |-> <<>>]
  ELSE [err |-> "OK", entries |-> ChildrenFrom(f, d, 1)]

\* os.stat(path), following links: n is the last component of the path and
\* cnt the number of links crossed to reach it.
RECURSIVE Stat(_, _, _)
Stat(f, n, cnt) ==
  IF f[n].kind = "link" THEN
    IF cnt >= SymlinkLimit THEN [err |-> "ELOOP", node |-> n, cnt |-> cnt]
    ELSE IF f[n].target \notin DOMAIN f THEN [err |-> "ENOENT", node |-> n, cnt |-> cnt]
    ELSE Stat(f, f[n].target, cnt + 1)
  ELSE IF f[n].kind = "file" /\ f[n].fails THEN [err |-> "EIO", node |-> n, cnt |-> cnt]
  ELSE [err |-> "OK", node |-> n, cnt |-> cnt]

\* os.path.isfile / os.path.isdir: stat errors read as False.
IsFile(f, n, cnt) ==
  LET st == Stat(f, n, cnt) IN st.err = "OK" /\ f[st.node].kind = "file"

IsDir(f, n, cnt) ==
  LET st == Stat(f, n, cnt) IN st.err = "OK" /\ f[st.node].kind = "dir"

\* os.path.islink: lstat errors read as False.
IsLink(f, n) == f[n].kind = "link"

\* os.path.getsize(path): the size, or OSError.
GetSizeOf(f, n, cnt) ==
  LET st == Stat(f, n, cnt) IN
  IF st.err = "OK" THEN [err |-> "OK", size |-> f[st.node].size]
  ELSE [err |-> st.err, size |-> 0]

\* DirEntry.is_dir(): the directory listing tells the type of an entry that
\* is not a link; a link is resolved with stat, where a missing target reads
\* as False and any other error is raised.
EntryIsDir(f, n, cnt) ==
  IF f[n].kind # "link" THEN [err |-> "OK", val |-> f[n].kind = "dir"]
  ELSE LET st == Stat(f, n, cnt) IN
       IF st.err = "OK" THEN [err |-> "OK", val |-> f[st.node].kind = "dir"]
       ELSE IF st.err = "ENOENT" THEN [err |-> "OK", val |-> FALSE]
       ELSE [err |-> st.err, val |-> FALSE]

\* ---------------------------------------------------------------- os.walk
\* is_dir as os.walk calls it: an OSError reads as False.
WalkIsDir(f, n, cnt) ==
  LET r == EntryIsDir(f, n, cnt) IN r.err = "OK" /\ r.val

RECURSIVE OsWalk(_, _, _)
RECURSIVE WalkInto(_, _, _, _)
\* os.walk(top), top-down, links not followed, listing errors ignored: the
\* sequence of (dirpath, dirnames, filenames) it yields.
OsWalk(f, top, cnt) ==
  LET sd == ScanDir(f, top) IN
  IF sd.err # "OK" THEN <<>>
  ELSE LET IsD(n) == WalkIsDir(f, n, cnt)
           NotD(n) == ~WalkIsDir(f, n, cnt)
           dirs == SelectSeq(sd.entries, IsD)
           nondirs == SelectSeq(sd.entries, NotD)
       IN <<[dirpath |-> top, dirnames |-> dirs, filenames |-> nondirs]>>
          \o WalkInto(f, dirs, 1, cnt)

\* os.walk that does not descend into the directories it lists.
WalkIntoNothing(f, dirs, i, cnt) == <<>>

WalkInto(f, dirs, i, cnt) ==
  IF i > Len(dirs) THEN <<>>
  ELSE (IF IsLink(f, dirs[i]) THEN <<>> ELSE OsWalk(f, dirs[i], cnt))
       \o WalkInto(f, dirs, i + 1, cnt)

\* --------------------------------------------------------------- get_size
RECURSIVE SumFilesLinksCounted(_, _, _, _, _)
\* get_size's inner loop without the islink test of line 17.
SumFilesLinksCounted(f, names, i, cnt, total) ==
  IF i > Len(names) THEN [exc |-> FALSE, total |-> total]
  ELSE LET g == GetSizeOf(f, names[i], cnt) IN
       IF g.err # "OK" THEN [exc |-> TRUE, total |-> total]
       ELSE SumFilesLinksCounted(f, names, i + 1, cnt, total + g.size)

RECURSIVE SumFiles(_, _, _, _, _)
\* The inner loop of get_size over one yielded filenames list.
SumFiles(f, names, i, cnt, total) ==
  IF i > Len(names) THEN [exc |-> FALSE, total |-> total]
  ELSE IF IsLink(f, names[i]) THEN SumFiles(f, names, i + 1, cnt, total)
  ELSE LET g == GetSizeOf(f, names[i], cnt) IN
       IF g.err # "OK" THEN [exc |-> TRUE, total |-> total]
       ELSE SumFiles(f, names, i + 1, cnt, total + g.size)

RECURSIVE SumWalk(_, _, _, _, _)
\* The outer loop of get_size over the triples os.walk yields.
SumWalk(f, triples, i, cnt, total) ==
  IF i > Len(triples) THEN [exc |-> FALSE, total |-> total]
  ELSE LET r == SumFiles(f, triples[i].filenames, 1, cnt, total) IN
       IF r.exc THEN r
       ELSE SumWalk(f, triples, i + 1, cnt, r.total)

\* get_size(path): n is the last component of the path, reached by crossing
\* cnt links.
get_size(f, n, cnt) ==
  IF IsFile(f, n, cnt) THEN
    LET g == GetSizeOf(f, n, cnt) IN IF g.err = "OK" THEN g.size ELSE None
  ELSE IF IsDir(f, n, cnt) THEN
    LET st == Stat(f, n, cnt)
        \* the loops run over what one run of os.walk yields
        r == CHOOSE x \in {SumWalk(f, triples, 1, st.cnt, 0) :
                           triples \in {OsWalk(f, st.node, st.cnt)}} : TRUE
    IN IF r.exc THEN None ELSE r.total
  ELSE None

\* ------------------------------------------- list_files_and_folders_recursive
\* No except clause: the error leaves the call.
CatchOSErrorMissing(r) == r

\* The except clause of lines 52-53: the error is dropped, the entries
\* appended so far are kept.
CatchOSError(r) == [structure |-> r.structure, exc |-> FALSE]

DirectoryEntry(f, n, path, cnt, contents) ==
  [name |-> n, path |-> Append(path, n), type |-> "directory",
   size |-> get_size(f, n, cnt), contents |-> contents]

\* A file entry that carries a contents field.
FileEntryWithContents(f, n, path, cnt) ==
  [name |-> n, path |-> Append(path, n), type |-> "file",
   size |-> get_size(f, n, cnt), contents |-> <<>>]

FileEntry(f, n, path, cnt) ==
  [name |-> n, path |-> Append(path, n), type |-> "file",
   size |-> get_size(f, n, cnt)]

RECURSIVE list_files_and_folders_recursive(_, _, _, _, _)
RECURSIVE ListLoop(_, _, _, _, _, _, _)
\* The for loop of lines 36-51 from entry i on; an OSError raised by is_dir
\* or by the recursive call leaves the loop.
ListLoop(f, entries, i, structure, path, cnt, fo) ==
  IF i > Len(entries) THEN [structure |-> structure, exc |-> FALSE]
  ELSE LET n == entries[i]
           isd == EntryIsDir(f, n, cnt)
       IN IF isd.err # "OK" THEN [structure |-> structure, exc |-> TRUE]
          ELSE IF isd.val THEN
            LET st == Stat(f, n, cnt)
                sub == list_files_and_folders_recursive(f, st.node, Append(path, n), st.cnt, fo)
            IN IF sub.exc THEN [structure |-> structure, exc |-> TRUE]
               ELSE ListLoop(f, entries, i + 1,
                             Append(structure, DirectoryEntry(f, n, path, cnt, sub.structure)),
                             path, cnt, fo)
          ELSE IF ~fo THEN
            ListLoop(f, entries, i + 1, Append(structure, FileEntry(f, n, path, cnt)),
                     path, cnt, fo)
          ELSE ListLoop(f, entries, i + 1, structure, path, cnt, fo)

\* list_files_and_folders_recursive(root, folders_only): d is the directory
\* the path resolves to, cnt the number of links crossed to reach it.
list_files_and_folders_recursive(f, d, path, cnt, fo) ==
  LET sd == ScanDir(f, d) IN
  IF sd.err # "OK" THEN CatchOSError([structure |-> <<>>, exc |-> TRUE])
  ELSE CatchOSError(ListLoop(f, sd.entries, 1, <<>>, path, cnt, fo))

\* ------------------------------------------------ transform_for_d3_sunburst
\* item.get('size', 0), without the "or 0".
SizeKeepsNone(item) == IF "size" \in DOMAIN item THEN item.size ELSE 0

\* item.get('size', 0) or 0
SizeOrZero(item) ==
  IF "size" \in DOMAIN item
  THEN (IF item.size = None \/ item.size = 0 THEN 0 ELSE item.size)
  ELSE 0

\* 'contents' in item and item['contents']
HasContents(item) == "contents" \in DOMAIN item /\ item.contents # <<>>

RECURSIVE transform_for_d3_sunburst(_, _)
RECURSIVE TransformLoop(_, _, _)
RECURSIVE TransformLoopLeafWithChildren(_, _, _)
\* The loop with a leaf that also carries an empty children list.
TransformLoopLeafWithChildren(data, i, node) ==
  IF i > Len(data) THEN node
  ELSE LET item == data[i]
           size == SizeOrZero(item)
       IN IF HasContents(item) THEN
            LET children_node == transform_for_d3_sunburst(item.contents, item.path)
                renamed == [children_node EXCEPT !.name = item.path]
            IN TransformLoopLeafWithChildren(data, i + 1,
                 [node EXCEPT !.children = Append(node.children, renamed)])
          ELSE TransformLoopLeafWithChildren(data, i + 1,
                 [node EXCEPT !.children =
                    Append(node.children,
                           [name |-> item.path, value |-> size, children |-> <<>>])])

\* The for loop of lines 73-86 from item i on.
TransformLoop(data, i, node) ==
  IF i > Len(data) THEN node
  ELSE LET item == data[i]
           size == SizeOrZero(item)
       IN IF HasContents(item) THEN
            LET children_node == transform_for_d3_sunburst(item.contents, item.path)
                renamed == [children_node EXCEPT !.name = item.path]
            IN TransformLoop(data, i + 1,
                 [node EXCEPT !.children = Append(node.children, renamed)])
          ELSE TransformLoop(data, i + 1,
                 [node EXCEPT !.children =
                    Append(node.children, [name |-> item.path, value |-> size])])

transform_for_d3_sunburst(data, parent_name) ==
  TransformLoop(data, 1, [name |-> parent_name, children |-> <<>>])

\* --------------------------------------------------------------------- main
\* root_dir, the path of the scan root.
root_dir == <<Root>>

NoResult == [structure |-> <<>>, exc |-> FALSE]
NoTree == [name |-> <<>>, children |-> <<>>]

Init ==
  /\ \E r \in RootAttrs : fs = (Root :> r)
  /\ folders_only = FALSE
  /\ file_structure = NoResult
  /\ d3_data = NoTree
  /\ pc = "start"
  /\ stack = <<>>

\* The filesystem before the scan: a file, directory or link is created,
\* while fewer than max nodes exist below the root.
CreateUpTo(max) ==
  /\ pc = "start"
  /\ Cardinality(DOMAIN fs) <= max
  /\ LET n == Cardinality(DOMAIN fs) IN
       \E a \in NodeAttrs(fs, n) : fs' = fs @@ (n :> a)
  /\ UNCHANGED <<folders_only, file_structure, d3_data, pc, stack>>

Create == CreateUpTo(MaxNodes)

\* Line 449, for either value of folders_only.
Scan ==
  /\ pc = "start"
  /\ \E fo \in BOOLEAN :
       /\ folders_only' = fo
       /\ file_structure' = list_files_and_folders_recursive(fs, Root, root_dir, 0, fo)
  /\ pc' = "scanned"
  /\ UNCHANGED <<fs, d3_data, stack>>

\* Line 456.
Transform ==
  /\ pc = "scanned"
  /\ d3_data' = transform_for_d3_sunburst(file_structure.structure, root_dir)
  /\ pc' = "done"
  /\ UNCHANGED <<fs, folders_only, file_structure, stack>>

Next == Create \/ Scan \/ Transform

Spec == Init /\ [][Next]_vars

\* ----------------------------------------------------- the scan, step by step
\* The scan as the interpreter runs it: one frame per active call of
\* list_files_and_folders_recursive, one step per loop iteration.

\* A call's frame on entry: the listing of its directory (empty when the
\* listing raises, which the except clause absorbs), the loop position, the
\* structure built so far, and the size of the directory entry whose
\* contents a nested call is computing.
NewFrame(f, d, path, cnt) ==
  [d |-> d, path |-> path, cnt |-> cnt, entries |-> ScanDir(f, d).entries,
   i |-> 1, structure |-> <<>>, size |-> None]

\* The loop stays on the entry it has just handled.
AfterEntrySameEntry(fr, structure) == [fr EXCEPT !.i = fr.i]

\* The loop moves to the next entry, with the structure as it now is.
AfterEntry(fr, structure) ==
  [fr EXCEPT !.i = fr.i + 1, !.structure = structure]

\* An OSError raised in the loop body ends the loop.
LeaveLoop(fr) == [fr EXCEPT !.i = Len(fr.entries) + 1]

Top == stack[Len(stack)]

Running == pc = "scanning" /\ stack # <<>> /\ Top.i <= Len(Top.entries)

ReplaceTop(st, fr) == [st EXCEPT ![Len(st)] = fr]

Pop(st) == SubSeq(st, 1, Len(st) - 1)

\* Line 449: main calls the scanner on the root.
Begin ==
  /\ pc = "start"
  /\ \E fo \in BOOLEAN : folders_only' = fo
  /\ stack' = <<NewFrame(fs, Root, root_dir, 0)>>
  /\ pc' = "scanning"
  /\ UNCHANGED <<fs, file_structure, d3_data>>

\* Lines 37-43: the entry is a directory; its size is taken and the scanner
\* is called on it.
VisitDir ==
  /\ Running
  /\ LET n == Top.entries[Top.i]
         isd == EntryIsDir(fs, n, Top.cnt)
         st == Stat(fs, n, Top.cnt)
     IN /\ isd.err = "OK" /\ isd.val
        /\ stack' = Append(ReplaceTop(stack, [Top EXCEPT !.size = get_size(fs, n, Top.cnt)]),
                           NewFrame(fs, st.node, Append(Top.path, n), st.cnt))
  /\ UNCHANGED <<fs, folders_only, file_structure, d3_data, pc>>

\* Lines 45-51: the entry is not a directory.
VisitFile ==
  /\ Running
  /\ LET n == Top.entries[Top.i]
         isd == EntryIsDir(fs, n, Top.cnt)
     IN /\ isd.err = "OK" /\ ~isd.val
        /\ stack' = ReplaceTop(stack,
             AfterEntry(Top, IF folders_only THEN Top.structure
                             ELSE Append(Top.structure, FileEntry(fs, n, Top.path, Top.cnt))))
  /\ UNCHANGED <<fs, folders_only, file_structure, d3_data, pc>>

\* Lines 37, 52-53: is_dir raises an OSError.
VisitError ==
  /\ Running
  /\ EntryIsDir(fs, Top.entries[Top.i], Top.cnt).err # "OK"
  /\ stack' = ReplaceTop(stack, LeaveLoop(Top))
  /\ UNCHANGED <<fs, folders_only, file_structure, d3_data, pc>>

\* Line 54: the call returns its structure, to the dict literal of lines
\* 38-44 in the calling frame or to main.
Return ==
  /\ pc = "scanning" /\ stack # <<>> /\ Top.i > Len(Top.entries)
  /\ IF Len(stack) = 1
     THEN /\ file_structure' = [structure |-> Top.structure, exc |-> FALSE]
          /\ stack' = <<>>
          /\ pc' = "scanned"
     ELSE LET caller == stack[Len(stack) - 1]
              n == caller.entries[caller.i]
              entry == [name |-> n, path |-> Append(caller.path, n), type |-> "directory",
                        size |-> caller.size, contents |-> Top.structure]
          IN /\ stack' = ReplaceTop(Pop(stack), AfterEntry(caller, Append(caller.structure, entry)))
             /\ UNCHANGED <<file_structure, pc>>
  /\ UNCHANGED <<fs, folders_only, d3_data>>

LiveCreate == CreateUpTo(LiveNodes)

LiveNext == LiveCreate \/ Begin \/ VisitDir \/ VisitFile \/ VisitError \/ Return \/ Transform

\* The interpreter keeps running the program: a step that can be taken is
\* taken.
LiveSpec == Init /\ [][LiveNext]_vars /\ WF_vars(LiveNext)

\* The stepwise scan and the recursive definition give the same result.
StepwiseAgrees ==
  pc = "scanned" /\ stack = <<>> =>
    file_structure = list_files_and_folders_recursive(fs, Root, root_dir, 0, folders_only)

\* ----------------------------------------------------- reading the results
Scanned == pc \in {"scanned", "done"}

RECURSIVE Flatten(_)
RECURSIVE FlattenFrom(_, _)
\* Every entry of a scan result, at every depth.
Flatten(structure) == FlattenFrom(structure, 1)

FlattenFrom(structure, i) ==
  IF i > Len(structure) THEN <<>>
  ELSE <<structure[i]>>
       \o (IF "contents" \in DOMAIN structure[i] THEN Flatten(structure[i].contents) ELSE <<>>)
       \o FlattenFrom(structure, i + 1)

AllEntries == Flatten(file_structure.structure)

EveryEntry(P(_)) ==
  LET ents == AllEntries IN \A i \in 1..Len(ents) : P(ents[i])

SomeEntry(P(_)) ==
  LET ents == AllEntries IN \E i \in 1..Len(ents) : P(ents[i])

IsDirectoryEntry(e) == e.type = "directory"

EveryDirectory(P(_)) ==
  LET ents == AllEntries IN
  \A i \in 1..Len(ents) : IsDirectoryEntry(ents[i]) => P(ents[i])

SomeDirectory(P(_)) ==
  LET ents == AllEntries IN
  \E i \in 1..Len(ents) : IsDirectoryEntry(ents[i]) /\ P(ents[i])

RECURSIVE Follow(_, _)
\* The node a directory entry's path names, links followed.
Follow(f, n) == IF f[n].kind = "link" THEN Follow(f, f[n].target) ELSE n

RECURSIVE Within(_, _, _)
\* Node n lies below directory d.
Within(f, n, d) ==
  /\ n # Root
  /\ f[n].parent \in DOMAIN f
  /\ (f[n].parent = d \/ Within(f, f[n].parent, d))

RECURSIVE SumOver(_, _)
SumOver(f, S) ==
  IF S = {} THEN 0
  ELSE LET n == CHOOSE x \in S : TRUE IN f[n].size + SumOver(f, S \ {n})

\* The regular files below directory d whose stat succeeds, and their sizes'
\* sum; a link is no regular file.
ReadableFilesBelow(f, d) ==
  {n \in DOMAIN f : f[n].kind = "file" /\ ~f[n].fails /\ Within(f, n, d)}

TreeSize(f, d) == SumOver(f, ReadableFilesBelow(f, d))

NoFailure(f) == \A n \in DOMAIN f : ~f[n].fails

RECURSIVE SumSizeFields(_, _)
\* The sum of the size fields of a sequence of entries, absent read as 0.
SumSizeFields(structure, i) ==
  IF i > Len(structure) THEN 0
  ELSE (IF structure[i].size = None THEN 0 ELSE structure[i].size)
       + SumSizeFields(structure, i + 1)

\* ------------------------------------------------------------------ claims
\* C1: on a filesystem where no listing and no size probe fails, the size of
\* every directory entry of the scan result is the exact sum of the sizes
\* of the regular files transitively contained in the directory, symbolic
\* links contributing 0.
C1_DirectorySizeIsExactSum ==
  (Scanned /\ NoFailure(fs)) =>
    EveryDirectory(LAMBDA e : e.size = TreeSize(fs, Follow(fs, e.name)))

\* With no failure anywhere, a directory entry of positive size holds a
\* directory entry of positive size: the files counted lie two levels down.
C1_Witness ==
  /\ Scanned /\ NoFailure(fs)
  /\ SomeDirectory(LAMBDA e :
       /\ e.size > 0
       /\ \E j \in 1..Len(e.contents) :
            /\ IsDirectoryEntry(e.contents[j])
            /\ e.contents[j].size > 0)

\* The files whose size probe fails.
FailingFiles == {n \in DOMAIN fs : fs[n].kind = "file" /\ fs[n].fails}

UnlistableDirs == {n \in DOMAIN fs : fs[n].kind = "dir" /\ fs[n].fails}

\* C2: when the size probe of a single file F fails, F contributes 0 to
\* every enclosing directory: each directory entry above F has a present
\* size, the sum of its other readable regular files.
C2_FailedProbeContributesZero ==
  (Scanned /\ Cardinality(FailingFiles) = 1 /\ UnlistableDirs = {}) =>
    EveryDirectory(LAMBDA e :
      LET d == Follow(fs, e.name)
      IN (\E n \in FailingFiles : Within(fs, n, d)) =>
           /\ e.size # None
           /\ e.size = TreeSize(fs, d))

\* The filesystem in which listing an unlistable directory yields no entry
\* instead of an error: the directory is listable and nothing is listed in
\* it.
AsIfEmpty(f) ==
  [n \in DOMAIN f |->
     IF f[n].kind = "dir" THEN
       [f[n] EXCEPT !.fails = FALSE,
                    !.parent = IF n # Root /\ f[f[n].parent].fails THEN NoNode ELSE @]
     ELSE [f[n] EXCEPT !.parent = IF f[@].fails THEN NoNode ELSE @]]

\* C3: when listing a directory fails, no exception reaches the caller of
\* the scanner, the directory's entry has an empty contents sequence, and
\* the whole result (siblings, ancestors' entries) is what it would be if
\* listing the directory had yielded no entry.
C3_UnlistableDirectoryReadsAsEmpty ==
  (Scanned /\ UnlistableDirs # {}) =>
    /\ ~file_structure.exc
    /\ EveryDirectory(LAMBDA e :
         Follow(fs, e.name) \in UnlistableDirs => e.contents = <<>>)
    /\ file_structure =
         list_files_and_folders_recursive(AsIfEmpty(fs), Root, root_dir, 0, folders_only)

\* An unlistable directory that holds something has an entry, next to a
\* sibling entry.
C3_Witness ==
  /\ Scanned
  /\ SomeDirectory(LAMBDA e :
       LET d == Follow(fs, e.name) IN
       /\ d \in UnlistableDirs
       /\ \E n \in DOMAIN fs : n # Root /\ fs[n].parent = d)
  /\ Len(AllEntries) >= 2

RECURSIVE NamePath(_, _)
\* The names from the root down to node n.
NamePath(f, n) == IF n = Root THEN <<>> ELSE Append(NamePath(f, f[n].parent), n)

RECURSIVE ReachableThroughReadable(_, _)
\* Every directory above node n is listable.
ReachableThroughReadable(f, n) ==
  n # Root => (~f[f[n].parent].fails /\ ReachableThroughReadable(f, f[n].parent))

RECURSIVE CountAt(_, _, _, _)
\* The number of entries of the given type at the position the names lead
\* to in the hierarchy.
CountAt(structure, names, type, i) ==
  IF i > Len(structure) THEN 0
  ELSE (IF structure[i].name # names[1] THEN 0
        ELSE IF Len(names) = 1 THEN (IF structure[i].type = type THEN 1 ELSE 0)
        ELSE IF "contents" \in DOMAIN structure[i]
             THEN CountAt(structure[i].contents, Tail(names), type, 1)
             ELSE 0)
       + CountAt(structure, names, type, i + 1)

\* C5: in folders-only mode no file entry appears at any depth, while every
\* directory reachable from the root through readable directories appears
\* exactly once at its position; with files included, every non-directory
\* entry appears with type file.
C5_FoldersOnlyOmitsExactlyFiles ==
  Scanned =>
    /\ folders_only => EveryEntry(LAMBDA e : e.type # "file")
    /\ \A n \in DOMAIN fs \ {Root} :
         (fs[n].kind = "dir" /\ ReachableThroughReadable(fs, n)) =>
           CountAt(file_structure.structure, NamePath(fs, n), "directory", 1) = 1
    /\ ~folders_only =>
         \A n \in DOMAIN fs \ {Root} :
           (fs[n].kind # "dir" /\ ~IsDir(fs, n, 0) /\ ReachableThroughReadable(fs, n)) =>
             CountAt(file_structure.structure, NamePath(fs, n), "file", 1) = 1

\* C6: at every depth of a scan result, an entry's type is file or
\* directory, and the entry has a contents field exactly when its type is
\* directory.
C6_ContentsIffDirectory ==
  Scanned =>
    EveryEntry(LAMBDA e :
      /\ e.type \in {"file", "directory"}
      /\ ("contents" \in DOMAIN e) <=> (e.type = "directory"))

\* A directory entry holds a file entry and a directory entry.
C6_Witness ==
  /\ Scanned
  /\ SomeDirectory(LAMBDA e :
       /\ \E j \in 1..Len(e.contents) : e.contents[j].type = "file"
       /\ \E j \in 1..Len(e.contents) : e.contents[j].type = "directory")

RECURSIVE TreeNodes(_)
RECURSIVE TreeNodesFrom(_, _)
\* Every node of a visualization tree.
TreeNodes(node) ==
  <<node>> \o (IF "children" \in DOMAIN node THEN TreeNodesFrom(node.children, 1) ELSE <<>>)

TreeNodesFrom(children, i) ==
  IF i > Len(children) THEN <<>>
  ELSE TreeNodes(children[i]) \o TreeNodesFrom(children, i + 1)

IsBranch(node) == "children" \in DOMAIN node

IsLeaf(node) == "value" \in DOMAIN node

\* C7: the transformer returns a tree in which every node has exactly one
\* of children and value, and whose root is a branch node named with the
\* given root name.
C7_ExactlyOneOfChildrenAndValue ==
  pc = "done" =>
    /\ IsBranch(d3_data)
    /\ d3_data.name = root_dir
    /\ LET nodes == TreeNodes(d3_data) IN
       \A i \in 1..Len(nodes) : IsBranch(nodes[i]) # IsLeaf(nodes[i])

\* The tree has a leaf under the root and a leaf under a branch.
C7_Witness ==
  /\ pc = "done"
  /\ \E i \in 1..Len(d3_data.children) : IsLeaf(d3_data.children[i])
  /\ \E i \in 1..Len(d3_data.children) :
       /\ IsBranch(d3_data.children[i])
       /\ \E j \in 1..Len(d3_data.children[i].children) :
            IsLeaf(d3_data.children[i].children[j])

RECURSIVE Conforms(_, _, _)
\* The node is the image of the entry sequence: a branch of the given name
\* with one child per entry, in order.
Conforms(data, node, name) ==
  /\ DOMAIN node = {"name", "children"}
  /\ node.name = name
  /\ Len(node.children) = Len(data)
  /\ \A i \in 1..Len(data) :
       LET item == data[i]
           child == node.children[i]
       IN IF item.type = "directory" /\ item.contents # <<>>
          THEN Conforms(item.contents, child, item.path)
          ELSE /\ DOMAIN child = {"name", "value"}
               /\ child.name = item.path
               /\ child.value = (IF item.size = None THEN 0 ELSE item.size)

\* C8: the transformer maps each entry to one child at the entry's position:
\* a directory with non-empty contents to a branch named with its path whose
\* children are the transform of its contents; a file, or a directory with
\* empty contents, to a leaf named with its path whose value is the entry's
\* size, 0 when the size is absent.
C8_TransformMapsEntriesInOrder ==
  pc = "done" => Conforms(file_structure.structure, d3_data, root_dir)

\* The input has an entry of absent size, a directory with contents and a
\* directory without.
C8_Witness ==
  /\ pc = "done"
  /\ SomeEntry(LAMBDA e : e.size = None)
  /\ SomeDirectory(LAMBDA e : e.contents # <<>>)
  /\ SomeDirectory(LAMBDA e : e.contents = <<>>)

LinksBelow(f, d) == {n \in DOMAIN f : f[n].kind = "link" /\ Within(f, n, d)}

RECURSIVE LeafSum(_)
RECURSIVE LeafSumFrom(_, _)
\* The sum of value over the leaves of a visualization tree.
LeafSum(node) ==
  IF IsLeaf(node) THEN node.value ELSE LeafSumFrom(node.children, 1)

LeafSumFrom(children, i) ==
  IF i > Len(children) THEN 0
  ELSE LeafSum(children[i]) + LeafSumFrom(children, i + 1)

NoLink(f) == \A n \in DOMAIN f : f[n].kind # "link"

\* C10: on a filesystem with no error and no symbolic link, for either value
\* of folders_only, the values of the leaves of the transformed scan result
\* add up to the sum of the size fields of the result's top-level entries.
C10_PipelineConservesSize ==
  (pc = "done" /\ NoFailure(fs) /\ NoLink(fs)) =>
    LeafSum(d3_data) = SumSizeFields(file_structure.structure, 1)

\* C4: on any finite filesystem, whatever unlistable directories, failing
\* size probes and symbolic links (dangling, to directories, cyclic) it
\* holds, the scan returns.
C4_ScanReturns == <>(pc = "scanned")

\* The scan has returned on a filesystem where a link leads back to a
\* directory above it.
C4_Witness ==
  /\ pc = "scanned"
  /\ \E n \in DOMAIN fs :
       /\ fs[n].kind = "link"
       /\ IsDir(fs, n, 0)
       /\ (Follow(fs, n) = Root \/ Within(fs, n, Follow(fs, n)))
  /\ Len(AllEntries) >= 2

=============================================================================
